---------------------------- MODULE Spec2Model ----------------------------
(***************************************************************************)
(* A model of src/app.py, the Tk front end of the crop recommendation      *)
(* system: the explanation generator, the top-3 ranking, the prediction    *)
(* cycle (auto_predict) and the event handlers that start it.              *)
(*                                                                         *)
(* Spec is the whole program, from start-up on.  SpecExplain, SpecRank     *)
(* and SpecIcon run one call of generate_interpretation, of the ranking    *)
(* and of get_crop_emoji; SpecCycle runs one prediction cycle.             *)
(*                                                                         *)
(* Numbers.  Slider readings are floats in the program; the model keeps    *)
(* them in tenths (2505 is 250.5).  Probabilities are kept in thousandths  *)
(* (250 is 0.25) and percentages in thousandths of a percent.              *)
(* Text is kept as text: the f-strings of the program are built with \o.   *)
(* A character outside ASCII is written as its code point ("U+1F33E" for   *)
(* the rice icon, "U+00B0" for the degree sign).                           *)
(***************************************************************************)
EXTENDS Integers, Sequences, FiniteSets, TLC

VARIABLES
    phase,          \* "loading", then "running" (mainloop) or "exited"
    files,          \* the artifact files present in the working directory
    reported,       \* the missing file the start-up printed, "" if none
    regions,        \* le_region.classes_.tolist()
    seasons,        \* le_season.classes_.tolist()
    crops,          \* le_crop.classes_
    feature_columns,\* the column order loaded at start-up
    slider_vars,    \* the nine DoubleVars of the sliders, in tenths
    value_labels,   \* the text of the value label beside each slider
    input_vars,     \* the StringVars of the region and season dropdowns
    timers,         \* pending root.after timers: time left and who set it
    stack,          \* the handlers that are running, innermost last
    status,         \* the text of status_label
    display,        \* the result panel: crop, confidence, explanation, alternatives
    last,           \* what the step just taken did (observation only)
    shown,          \* the inputs read by the cycle that last wrote the panel
                    \* (observation only)
    gi,             \* generate_interpretation: the call and what it returned
    rk,             \* the top-3 ranking of auto_predict: the call and its result
    ce              \* get_crop_emoji: the call and what it returned

guiVars ==
    <<phase, files, reported, regions, seasons, crops, feature_columns,
      slider_vars, value_labels, input_vars, timers, stack, status, display, last,
      shown>>
pureVars == <<gi, rk, ce>>
vars == <<guiVars, pureVars>>

(***************************************************************************)
(* Text helpers: Python's str.lower, str.upper, str.title, `in`, join.     *)
(***************************************************************************)
LowerChars == "abcdefghijklmnopqrstuvwxyz"
UpperChars == "ABCDEFGHIJKLMNOPQRSTUVWXYZ"

Char(s, i) == SubSeq(s, i, i)

RECURSIVE IndexIn(_, _, _)
IndexIn(c, s, i) ==
    IF i > Len(s) THEN 0
    ELSE IF Char(s, i) = c THEN i
    ELSE IndexIn(c, s, i + 1)

\* the cased letters, tabulated once
LowerSet == {Char(LowerChars, i) : i \in 1..Len(LowerChars)}
UpperSet == {Char(UpperChars, i) : i \in 1..Len(UpperChars)}

IsLower(c) == c \in LowerSet
IsUpper(c) == c \in UpperSet
IsCased(c) == IsLower(c) \/ IsUpper(c)

\* each cased letter's counterpart, tabulated once
LowerOf == [c \in UpperSet |-> Char(LowerChars, IndexIn(c, UpperChars, 1))]
UpperOf == [c \in LowerSet |-> Char(UpperChars, IndexIn(c, LowerChars, 1))]

LowerChar(c) == IF IsUpper(c) THEN LowerOf[c] ELSE c

UpperChar(c) == IF IsLower(c) THEN UpperOf[c] ELSE c

RECURSIVE LowerFrom(_, _)
LowerFrom(s, i) ==
    IF i > Len(s) THEN "" ELSE LowerChar(Char(s, i)) \o LowerFrom(s, i + 1)

RECURSIVE UpperFrom(_, _)
UpperFrom(s, i) ==
    IF i > Len(s) THEN "" ELSE UpperChar(Char(s, i)) \o UpperFrom(s, i + 1)

Lower(s) == LowerFrom(s, 1)
Upper(s) == UpperFrom(s, 1)

\* str.title(): a cased character is upper-cased when the character before it
\* is not cased, and lower-cased otherwise.
RECURSIVE TitleFrom(_, _)
TitleFrom(s, i) ==
    IF i > Len(s) THEN ""
    ELSE LET c == Char(s, i)
             first == i = 1 \/ ~IsCased(Char(s, i - 1))
         IN  (IF first THEN UpperChar(c) ELSE LowerChar(c)) \o TitleFrom(s, i + 1)

Title(s) == TitleFrom(s, 1)

\* a in b, for two strings
IsSubstr(a, b) ==
    \E i \in 1..(Len(b) - Len(a) + 1) : SubSeq(b, i, i + Len(a) - 1) = a

\* sep.join(seq)
RECURSIVE Join(_, _)
Join(sep, seq) ==
    IF seq = <<>> THEN ""
    ELSE IF Len(seq) = 1 THEN seq[1]
    ELSE seq[1] \o sep \o Join(sep, Tail(seq))

(***************************************************************************)
(* Number formatting.  v is a reading in tenths.                           *)
(***************************************************************************)
\* f"{x:.0f}": round to the nearest integer, a half to the even neighbour
\* (x.5 is exactly representable, so the tie is a real tie).
Fmt0(v) ==
    LET q == v \div 10
        r == v % 10
    IN  ToString(IF r < 5 THEN q
                 ELSE IF r > 5 THEN q + 1
                 ELSE IF q % 2 = 0 THEN q ELSE q + 1)

\* f"{x:.1f}"
Fmt1(v) == ToString(v \div 10) \o "." \o ToString(v % 10)

(***************************************************************************)
(* generate_interpretation (src/app.py 539-607).  a is the record of its   *)
(* arguments; the readings are in tenths, so 250 in the code is 2500 here. *)
(***************************************************************************)
\* A variant whose moderate band stops short of 250: "elif 150 < rainfall < 250".
RainfallReasonBelow250(rainfall) ==
    IF rainfall > 2500 THEN <<"high rainfall (" \o Fmt0(rainfall) \o "mm)">>
    ELSE IF rainfall > 1500 /\ rainfall < 2500
         THEN <<"moderate rainfall (" \o Fmt0(rainfall) \o "mm)">>
    ELSE IF rainfall < 1000 THEN <<"low rainfall (" \o Fmt0(rainfall) \o "mm)">>
    ELSE <<>>

RainfallReason(rainfall) ==
    IF rainfall > 2500 THEN <<"high rainfall (" \o Fmt0(rainfall) \o "mm)">>
    ELSE IF rainfall > 1500 THEN <<"moderate rainfall (" \o Fmt0(rainfall) \o "mm)">>
    ELSE IF rainfall < 1000 THEN <<"low rainfall (" \o Fmt0(rainfall) \o "mm)">>
    ELSE <<>>

TemperatureReason(temp) ==
    IF temp > 320 THEN <<"warm temperature (" \o Fmt1(temp) \o "U+00B0C)">>
    ELSE IF temp < 220 THEN <<"cool temperature (" \o Fmt1(temp) \o "U+00B0C)">>
    ELSE IF 240 <= temp /\ temp <= 300
         THEN <<"optimal temperature (" \o Fmt1(temp) \o "U+00B0C)">>
    ELSE <<>>

HumidityReason(humidity) ==
    IF humidity > 750 THEN <<"high humidity (" \o Fmt0(humidity) \o "%)">>
    ELSE IF humidity < 500 THEN <<"low humidity (" \o Fmt0(humidity) \o "%)">>
    ELSE <<>>

MoistureReason(moisture) ==
    IF moisture > 600 THEN <<"high soil moisture (" \o Fmt0(moisture) \o "%)">>
    ELSE IF moisture < 300 THEN <<"low soil moisture (" \o Fmt0(moisture) \o "%)">>
    ELSE <<>>

SunlightReason(sunlight) ==
    IF sunlight > 90 THEN <<"abundant sunlight (" \o Fmt1(sunlight) \o " hrs)">>
    ELSE IF sunlight < 50 THEN <<"limited sunlight (" \o Fmt1(sunlight) \o " hrs)">>
    ELSE <<>>

PhReason(ph) ==
    IF 60 <= ph /\ ph <= 70 THEN <<"neutral pH (" \o Fmt1(ph) \o ")">>
    ELSE IF ph < 60 THEN <<"acidic soil (pH " \o Fmt1(ph) \o ")">>
    ELSE IF ph > 75 THEN <<"alkaline soil (pH " \o Fmt1(ph) \o ")">>
    ELSE <<>>

NitrogenReason(n) == IF n > 800 THEN <<"rich nitrogen">> ELSE <<>>
PhosphorusReason(p) == IF p > 500 THEN <<"good phosphorus">> ELSE <<>>
PotassiumReason(k) == IF k > 700 THEN <<"high potassium">> ELSE <<>>
SeasonReason(season) == <<season \o " season">>

\* A variant that appends the season phrase before the N/P/K phrases.
CollectReasonsSeasonEarly(a) ==
    RainfallReason(a.rainfall) \o TemperatureReason(a.temp)
        \o HumidityReason(a.humidity) \o MoistureReason(a.moisture)
        \o SunlightReason(a.sunlight) \o PhReason(a.ph)
        \o SeasonReason(a.season)
        \o NitrogenReason(a.n) \o PhosphorusReason(a.p) \o PotassiumReason(a.k)

\* the list `reasons` as it stands at line 595
CollectReasons(a) ==
    RainfallReason(a.rainfall) \o TemperatureReason(a.temp)
        \o HumidityReason(a.humidity) \o MoistureReason(a.moisture)
        \o SunlightReason(a.sunlight) \o PhReason(a.ph)
        \o NitrogenReason(a.n) \o PhosphorusReason(a.p) \o PotassiumReason(a.k)
        \o SeasonReason(a.season)

\* A variant that joins every reason instead of reasons[:3].
BuildMessageAllReasons(crop_name, reasons) ==
    IF Len(reasons) >= 3
    THEN crop_name \o " is suitable due to " \o Join(", ", reasons) \o "."
    ELSE IF Len(reasons) > 0
    THEN crop_name \o " is recommended because of " \o Join(" and ", reasons) \o "."
    ELSE crop_name \o " matches your current environmental conditions."

\* lines 597-607
BuildMessage(crop_name, reasons) ==
    IF Len(reasons) >= 3
    THEN crop_name \o " is suitable due to " \o Join(", ", SubSeq(reasons, 1, 3)) \o "."
    ELSE IF Len(reasons) > 0
    THEN crop_name \o " is recommended because of " \o Join(" and ", reasons) \o "."
    ELSE crop_name \o " matches your current environmental conditions."

generate_interpretation(a) == BuildMessage(a.crop_name, CollectReasons(a))


(***************************************************************************)
(* Label encoders (sklearn LabelEncoder): classes_ is a sorted list of     *)
(* distinct labels, transform gives a label's 0-based index in it and      *)
(* fails on a label that is not there, inverse_transform is the lookup.    *)
(***************************************************************************)
InClasses(classes, label) == \E i \in 1..Len(classes) : classes[i] = label

transform(classes, label) ==
    (CHOOSE i \in 1..Len(classes) : classes[i] = label) - 1

inverse_transform(classes, idx) == classes[idx + 1]

(***************************************************************************)
(* The ranking of auto_predict (src/app.py 644-651).  probabilities is the *)
(* row predict_proba returned, in thousandths, indexed by class index      *)
(* 0..N-1: At gives the element at a 0-based index.                        *)
(***************************************************************************)
At(seq, idx) == seq[idx + 1]

Reversed(seq) == [i \in 1..Len(seq) |-> seq[Len(seq) + 1 - i]]

\* seq[-3:]
LastThree(seq) == SubSeq(seq, IF Len(seq) > 3 THEN Len(seq) - 2 ELSE 1, Len(seq))

\* np.argsort(probabilities): the indices in an order that sorts the values
\* ascending.  The default kind is quicksort, which numpy documents as not
\* stable, so equal values may come out in any order.
ArgSorts(probabilities) ==
    LET N == Len(probabilities)
    IN  {o \in [1..N -> 0..(N - 1)] :
            /\ \A i, j \in 1..N : i # j => o[i] # o[j]
            /\ \A i \in 1..(N - 1) :
                   At(probabilities, o[i]) <= At(probabilities, o[i + 1])}

\* A variant that keeps the three lowest instead: argsort(...)[:3].
top_3_indicesLowest(order) ==
    SubSeq(order, 1, IF Len(order) > 3 THEN 3 ELSE Len(order))

\* np.argsort(probabilities)[-3:][::-1], for one outcome of the sort
top_3_indices(order) == Reversed(LastThree(order))

\* probabilities[idx] * 100: a percentage, in thousandths of a percent
TimesHundred(prob) == prob * 100

top_3_crops(classes, probabilities, indices) ==
    [i \in 1..Len(indices) |->
        <<inverse_transform(classes, indices[i]),
          TimesHundred(At(probabilities, indices[i]))>>]

(***************************************************************************)
(* The icon table (src/app.py 484-537).  A dict iterates in insertion      *)
(* order, so the table is a sequence of <<name, icon>>.                    *)
(***************************************************************************)
CROP_EMOJIS ==
    << <<"Rice", "U+1F33E">>, <<"Wheat", "U+1F33E">>, <<"Maize", "U+1F33D">>, <<"Corn", "U+1F33D">>,
       <<"Soybean", "U+1F331">>, <<"Tomato", "U+1F345">>, <<"Chili", "U+1F336U+FE0F">>,
       <<"Chilli", "U+1F336U+FE0F">>, <<"Pepper", "U+1F336U+FE0F">>, <<"Potato", "U+1F954">>,
       <<"Cotton", "U+1F331">>, <<"Sugarcane", "U+1F38B">>, <<"Coffee", "U+2615">>,
       <<"Tea", "U+1F375">>, <<"Banana", "U+1F34C">>, <<"Mango", "U+1F96D">>, <<"Apple", "U+1F34E">>,
       <<"Orange", "U+1F34A">>, <<"Grapes", "U+1F347">>, <<"Watermelon", "U+1F349">>,
       <<"Coconut", "U+1F965">>, <<"Onion", "U+1F9C5">>, <<"Garlic", "U+1F9C4">>,
       <<"Carrot", "U+1F955">>, <<"Cabbage", "U+1F96C">>, <<"Cauliflower", "U+1F966">>,
       <<"Pumpkin", "U+1F383">>, <<"Cucumber", "U+1F952">>, <<"Eggplant", "U+1F346">>,
       <<"Brinjal", "U+1F346">>, <<"Beans", "U+1FAD8">>, <<"Peas", "U+1FADB">>,
       <<"Lentils", "U+1FAD8">>, <<"Chickpea", "U+1FAD8">>, <<"Sunflower", "U+1F33B">>,
       <<"Mustard", "U+1F33F">>, <<"Groundnut", "U+1F95C">>, <<"Peanut", "U+1F95C">> >>

\* A variant that looks only for a table key inside the name, not for the
\* name inside a table key.
get_crop_emojiOneWay(crop_name) ==
    LET T == CROP_EMOJIS
        exact == {i \in 1..Len(T) : T[i][1] = crop_name}
        loose == {i \in 1..Len(T) : IsSubstr(Lower(T[i][1]), Lower(crop_name))}
        first(S) == CHOOSE i \in S : \A j \in S : i <= j
    IN  IF exact # {} THEN T[first(exact)][2]
        ELSE IF loose # {} THEN T[first(loose)][2]
        ELSE "U+1F331"

get_crop_emoji(crop_name) ==
    LET T == CROP_EMOJIS
        exact == {i \in 1..Len(T) : T[i][1] = crop_name}
        loose == {i \in 1..Len(T) :
                     \/ IsSubstr(Lower(T[i][1]), Lower(crop_name))
                     \/ IsSubstr(Lower(crop_name), Lower(T[i][1]))}
        first(S) == CHOOSE i \in S : \A j \in S : i <= j
    IN  IF exact # {} THEN T[first(exact)][2]
        ELSE IF loose # {} THEN T[first(loose)][2]
        ELSE "U+1F331"

(***************************************************************************)
(* The input controls (src/app.py 150-181, 211, 235).                      *)
(***************************************************************************)
SliderKeys ==
    <<"rainfall", "temperature", "humidity", "soil_moisture", "sunlight",
      "soil_ph", "nitrogen", "phosphorus", "potassium">>

KeySet == {SliderKeys[i] : i \in 1..Len(SliderKeys)}

\* the dict `defaults`, in tenths
defaults ==
    [rainfall |-> 2000, temperature |-> 280, humidity |-> 700,
     soil_moisture |-> 450, sunlight |-> 70, soil_ph |-> 65,
     nitrogen |-> 600, phosphorus |-> 400, potassium |-> 500]

\* slider_configs: from_, to (in tenths) and unit of each slider
slider_configs ==
    [rainfall      |-> [min |-> 0,   max |-> 3610, unit |-> "mm"],
     temperature   |-> [min |-> 170, max |-> 360,  unit |-> "U+00B0C"],
     humidity      |-> [min |-> 300, max |-> 1000, unit |-> "%"],
     soil_moisture |-> [min |-> 50,  max |-> 780,  unit |-> "%"],
     sunlight      |-> [min |-> 25,  max |-> 120,  unit |-> "hrs"],
     soil_ph       |-> [min |-> 45,  max |-> 85,   unit |-> ""],
     nitrogen      |-> [min |-> 50,  max |-> 1180, unit |-> "kg/ha"],
     phosphorus    |-> [min |-> 50,  max |-> 700,  unit |-> "kg/ha"],
     potassium     |-> [min |-> 50,  max |-> 950,  unit |-> "kg/ha"]]

\* f"{value:.1f} {unit}"
ValueLabelText(key, value) == Fmt1(value) \o " " \o slider_configs[key].unit

\* regions[0] if regions else ""
FirstOrEmpty(classes) == IF classes # <<>> THEN classes[1] ELSE ""

\* A variant of the built-in order that puts the two encoded columns first.
DefaultFeatureColumnsEncodedFirst ==
    <<"Region_Encoded", "Season_Encoded", "Rainfall_mm", "Temperature_C",
      "Humidity_pct", "SoilMoisture_pct", "Sunlight_hours", "Soil_pH",
      "SoilN_kg_ha", "SoilP_kg_ha", "SoilK_kg_ha">>

\* the feature order used when feature_columns.pkl is missing (lines 28-33)
DefaultFeatureColumns ==
    <<"Rainfall_mm", "Temperature_C", "Humidity_pct", "SoilMoisture_pct",
      "Sunlight_hours", "Soil_pH", "SoilN_kg_ha", "SoilP_kg_ha", "SoilK_kg_ha",
      "Region_Encoded", "Season_Encoded">>

(***************************************************************************)
(* The result panel and the status label as the widgets are created        *)
(* (lines 387-477).                                                        *)
(***************************************************************************)
InitialDisplay ==
    [crop |-> "---", confidence |-> "0.0%", conf_color |-> "#3B82F6",
     interpretation |-> "", alternatives |-> ""]

StatusReady == "U+1F7E2 Ready for prediction"
StatusPredicting == "U+1F504 Predicting..."
StatusComplete == "U+1F7E2 Prediction complete"
StatusError == "U+1F534 Prediction error"

(***************************************************************************)
(* One run of the body of auto_predict after root.update() has returned    *)
(* (lines 615-706): what it reads, what the classifier answers, and what   *)
(* it leaves on the panel.                                                 *)
(***************************************************************************)
\* f"{x:.1f}" of a percentage x kept in thousandths of a percent
FmtPct1(x) ==
    LET q == x \div 100
        r == x % 100
    IN  Fmt1(IF r < 50 THEN q
             ELSE IF r > 50 THEN q + 1
             ELSE IF q % 2 = 0 THEN q ELSE q + 1)

\* lines 662-669
ConfColor(confidence) ==
    IF confidence >= 80000 THEN "#10B981"
    ELSE IF confidence >= 60000 THEN "#3B82F6"
    ELSE IF confidence >= 40000 THEN "#F59E0B"
    ELSE "#EF4444"

\* lines 689-692: one line per alternative
RECURSIVE AlternativeLines(_, _)
AlternativeLines(top3, i) ==
    IF i > Len(top3) THEN ""
    ELSE ToString(i) \o ". " \o get_crop_emoji(top3[i][1]) \o " "
             \o Title(top3[i][1]) \o ": " \o FmtPct1(top3[i][2]) \o "%\n"
             \o AlternativeLines(top3, i + 1)

\* np.array([values]): every element becomes a float; in tenths
AsFloat(idx) == idx * 10

\* lines 620-632: the list `values`, always in this order
Values(sv, region_encoded, season_encoded) ==
    <<sv.rainfall, sv.temperature, sv.humidity, sv.soil_moisture, sv.sunlight,
      sv.soil_ph, sv.nitrogen, sv.phosphorus, sv.potassium,
      AsFloat(region_encoded), AsFloat(season_encoded)>>

\* pd.DataFrame(features, columns=feature_columns): the i-th value goes under
\* the i-th column name; it raises when the counts differ.
FrameFits(values, columns) == Len(columns) = Len(values)

features_df(values, columns) ==
    [i \in 1..Len(values) |-> <<columns[i], values[i]>>]

\* the arguments of the call at lines 673-678
InterpretationArgs(predicted_crop, sv, season) ==
    [crop_name |-> predicted_crop, rainfall |-> sv.rainfall,
     temp |-> sv.temperature, humidity |-> sv.humidity,
     moisture |-> sv.soil_moisture, sunlight |-> sv.sunlight,
     ph |-> sv.soil_ph, n |-> sv.nitrogen, p |-> sv.phosphorus,
     k |-> sv.potassium, season |-> season]

\* lines 643-654: confidence and top_3_crops; oc is what the classifier
\* answers and order the outcome of np.argsort
Confidence(oc) ==
    IF oc.proba_raises THEN 0
    ELSE TimesHundred(At(oc.probabilities, oc.prediction))

\* A variant of the fallback that lists no alternative at all.
TopThreeEmptyFallback(classes, oc, order) ==
    IF oc.proba_raises THEN <<>>
    ELSE top_3_crops(classes, oc.probabilities, top_3_indices(order))

TopThree(classes, oc, order) ==
    IF oc.proba_raises THEN << <<inverse_transform(classes, oc.prediction), 0>> >>
    ELSE top_3_crops(classes, oc.probabilities, top_3_indices(order))

\* lines 656-694: the panel after a run that got through
DisplayOf(predicted_crop, confidence, top3, sv, season) ==
    [crop |-> get_crop_emoji(predicted_crop) \o " " \o Upper(predicted_crop),
     confidence |-> FmtPct1(confidence) \o "%",
     conf_color |-> ConfColor(confidence),
     interpretation |->
         generate_interpretation(InterpretationArgs(predicted_crop, sv, season)),
     alternatives |-> AlternativeLines(top3, 1)]

\* whether the run reaches the except clause of line 702: an encoder that
\* does not know the region or the season, a frame that does not fit, or a
\* predict call that raises
CycleFails(oc) ==
    \/ ~InClasses(regions, input_vars.region)
    \/ ~InClasses(seasons, input_vars.season)
    \/ ~FrameFits(Values(slider_vars, 0, 0), feature_columns)
    \/ oc.predict_raises

\* the frame handed to model.predict
CycleFeatures ==
    features_df(Values(slider_vars,
                       transform(regions, input_vars.region),
                       transform(seasons, input_vars.season)),
                feature_columns)

\* A variant that explains the result from the default readings, not from
\* the readings the cycle read.
CycleDisplayFromDefaults(oc, order) ==
    DisplayOf(inverse_transform(crops, oc.prediction), Confidence(oc),
              TopThree(crops, oc, order), defaults, input_vars.season)

CycleDisplay(oc, order) ==
    DisplayOf(inverse_transform(crops, oc.prediction), Confidence(oc),
              TopThree(crops, oc, order), slider_vars, input_vars.season)


(***************************************************************************)
(* The explanation generator on its own: SpecExplain draws the arguments   *)
(* of one call of generate_interpretation and runs it.                     *)
(***************************************************************************)
GiRainfall == {500, 1000, 1500, 1510, 2500, 2505, 3000}
GiTemp == {200, 220, 240, 300, 310, 350}
GiHumidity == {400, 600, 800}
GiMoisture == {200, 450, 650}
GiSunlight == {40, 70, 100}
GiPh == {55, 60, 65, 70, 72, 75, 80}
GiN == {600, 900}
GiP == {400, 600}
GiK == {500, 750}
GiSeasons == {"Summer", "Winter"}
GiCrops == {"Rice", "Wheat"}

GiInputs ==
    [crop_name : GiCrops, rainfall : GiRainfall, temp : GiTemp,
     humidity : GiHumidity, moisture : GiMoisture, sunlight : GiSunlight,
     ph : GiPh, n : GiN, p : GiP, k : GiK, season : GiSeasons]

NoArgs ==
    [crop_name |-> "", rainfall |-> 0, temp |-> 0, humidity |-> 0,
     moisture |-> 0, sunlight |-> 0, ph |-> 0, n |-> 0, p |-> 0, k |-> 0,
     season |-> ""]

GiIdle == [pc |-> "idle", args |-> NoArgs, reasons |-> <<>>, message |-> ""]
CeIdle == [pc |-> "idle", crop_name |-> "", emoji |-> ""]
RkIdle ==
    [pc |-> "idle", classes |-> <<>>, probabilities |-> <<>>,
     top_3_indices |-> <<>>, top_3_crops |-> <<>>]

(***************************************************************************)
(* The program as a state machine.  Tk runs every handler on one thread;   *)
(* a handler gives control back to the event loop only where it calls      *)
(* root.update() (auto_predict, line 613) or opens a message box           *)
(* (manual_predict, reset_all).  stack holds the handlers that have done   *)
(* so and not yet returned.                                                *)
(***************************************************************************)
MaxTimers == 2      \* pending timers the model follows
MaxDepth == 2       \* nested handlers the model follows
TickMs == 500       \* the step in which the model lets time pass

RequiredFiles ==
    <<"best_crop_model.pkl", "region_encoder.pkl", "season_encoder.pkl",
      "crop_encoder.pkl">>
ColumnsFile == "feature_columns.pkl"
AllFiles == {RequiredFiles[i] : i \in 1..Len(RequiredFiles)} \cup {ColumnsFile}

\* what the artifacts may hold: the encoders' classes (sorted, as
\* LabelEncoder keeps them; an encoder may have none, which lines 211 and 235
\* provide for) and the saved column order
RegionChoices == {<<>>, <<"East">>}
SeasonChoices == {<<"Summer">>}
CropChoices == {<<"Maize", "Rice">>}
ColumnChoices ==
    {DefaultFeatureColumns,
     <<"Region_Encoded", "Season_Encoded", "Rainfall_mm", "Temperature_C",
       "Humidity_pct", "SoilMoisture_pct", "Sunlight_hours", "Soil_pH",
       "SoilN_kg_ha", "SoilP_kg_ha", "SoilK_kg_ha">>}

\* the slider positions the model lets the user drag to
SliderMoves == {<<"rainfall", 2600>>, <<"rainfall", 2000>>}

\* what one prediction cycle may get from the classifier: predict raises or
\* returns a class index; predict_proba raises (or is not there) or returns
\* a row over the classes
ProbaRows(N) ==
    IF N = 3
    THEN {<<500, 500, 0>>, <<0, 500, 500>>, <<400, 400, 200>>,
          <<200, 400, 400>>, <<600, 300, 100>>, <<100, 300, 600>>,
          <<500, 250, 250>>}
    ELSE {row \in [1..N -> {250, 750}] : row[1] = 750 /\ row[N] = 250}

ClassifierOutcomes(N) ==
    {[predict_raises |-> TRUE, prediction |-> 0, proba_raises |-> TRUE,
      probabilities |-> <<>>]}
    \cup {[predict_raises |-> FALSE, prediction |-> c, proba_raises |-> TRUE,
           probabilities |-> <<>>] : c \in 0..(N - 1)}
    \cup {[predict_raises |-> FALSE, prediction |-> c, proba_raises |-> FALSE,
           probabilities |-> row] : c \in 0..(N - 1), row \in ProbaRows(N)}

\* nothing has written the panel yet
NoSnapshot ==
    [written |-> FALSE, sliders |-> defaults,
     inputs |-> [region |-> "", season |-> ""]]

LastNone ==
    [op |-> "none", caller |-> "", failed |-> FALSE, proba_raises |-> FALSE,
     prediction |-> 0, probabilities |-> <<>>, panel |-> "same",
     features |-> <<>>, ran |-> 0]

Top == stack[Len(stack)]

\* a message box holds the grab: the main window takes no input under it
InputOpen == \A i \in 1..Len(stack) : stack[i].fn # "messagebox"

Init ==
    /\ phase = "loading"
    /\ files \in SUBSET AllFiles
    /\ reported = ""
    /\ regions = <<>> /\ seasons = <<>> /\ crops = <<>>
    /\ feature_columns = <<>>
    /\ slider_vars = defaults
    /\ value_labels = [k \in KeySet |-> ""]
    /\ input_vars = [region |-> "", season |-> ""]
    /\ timers = <<>>
    /\ stack = <<>>
    /\ status = ""
    /\ display = InitialDisplay
    /\ last = LastNone
    /\ shown = NoSnapshot
    /\ gi = GiIdle
    /\ rk = RkIdle
    /\ ce = CeIdle

\* lines 18-47, a required artifact missing: the first joblib.load that finds
\* no file raises, the file is printed and the process exits
StartupMissing ==
    /\ phase = "loading"
    /\ \E i \in 1..Len(RequiredFiles) :
           /\ RequiredFiles[i] \notin files
           /\ \A j \in 1..(i - 1) : RequiredFiles[j] \in files
           /\ reported' = RequiredFiles[i]
    /\ phase' = "exited"
    /\ last' = LastNone
    /\ UNCHANGED <<files, regions, seasons, crops, feature_columns, slider_vars,
                   value_labels, input_vars, timers, stack, status, display,
                   shown,
                   pureVars>>

\* lines 18-36, the widgets (150-477) and lines 780-786: everything loads, the
\* window is built and the first prediction is set for one second later
StartupLoads ==
    /\ phase = "loading"
    /\ \A i \in 1..Len(RequiredFiles) : RequiredFiles[i] \in files
    /\ \E r \in RegionChoices, se \in SeasonChoices, c \in CropChoices :
           /\ regions' = r
           /\ seasons' = se
           /\ crops' = c
           /\ input_vars' = [region |-> FirstOrEmpty(r), season |-> FirstOrEmpty(se)]
    /\ IF ColumnsFile \in files
       THEN \E cols \in ColumnChoices : feature_columns' = cols
       ELSE feature_columns' = DefaultFeatureColumns
    /\ slider_vars' = defaults
    /\ value_labels' = [k \in KeySet |-> ValueLabelText(k, defaults[k])]
    /\ display' = InitialDisplay
    /\ status' = StatusReady
    /\ timers' = <<[left |-> 1000, by |-> "startup"]>>
    /\ phase' = "running"
    /\ last' = LastNone
    /\ UNCHANGED <<files, reported, stack, shown,
                   pureVars>>

\* time passes
Tick ==
    /\ phase = "running"
    /\ \E i \in 1..Len(timers) : timers[i].left > 0
    /\ timers' = [i \in 1..Len(timers) |->
                     [timers[i] EXCEPT !.left = IF @ > TickMs THEN @ - TickMs ELSE 0]]
    /\ last' = LastNone
    /\ UNCHANGED <<phase, files, reported, regions, seasons, crops,
                   feature_columns, slider_vars, value_labels, input_vars,
                   stack, status, display, shown,
                   pureVars>>

\* root.after(ms, auto_predict): one more pending timer; none is cancelled
After(ts, t) == Append(ts, t)

\* the user moves a slider: the Scale sets its variable and calls
\* update_value (lines 308, 323-327)
update_value(key, value) ==
    /\ phase = "running"
    /\ InputOpen
    /\ Len(timers) < MaxTimers
    /\ slider_configs[key].min <= value /\ value <= slider_configs[key].max
    /\ value # slider_vars[key]
    /\ slider_vars' = [slider_vars EXCEPT ![key] = value]
    /\ value_labels' = [value_labels EXCEPT ![key] = ValueLabelText(key, value)]
    /\ timers' = After(timers, [left |-> 500, by |-> "update_value"])
    /\ last' = LastNone
    /\ UNCHANGED <<phase, files, reported, regions, seasons, crops,
                   feature_columns, input_vars, stack, status, display, shown,
                   pureVars>>

\* auto_predict is entered (lines 611-613): the status changes and
\* root.update() hands control to the event loop
EnterAutoPredict(caller) ==
    /\ Len(stack) < MaxDepth
    /\ status' = StatusPredicting
    /\ stack' = Append(stack, [fn |-> "auto_predict", caller |-> caller,
                               panel |-> "same", ran |-> 0])

\* a timer that is due fires and calls auto_predict
TimerFires ==
    /\ phase = "running"
    /\ \E i \in 1..Len(timers) :
           /\ timers[i].left = 0
           /\ \A j \in 1..(i - 1) : timers[j].left > 0
           /\ timers' = SubSeq(timers, 1, i - 1) \o SubSeq(timers, i + 1, Len(timers))
    /\ EnterAutoPredict("timer")
    /\ last' = LastNone
    /\ UNCHANGED <<phase, files, reported, regions, seasons, crops,
                   feature_columns, slider_vars, value_labels, input_vars,
                   display, shown,
                   pureVars>>

\* the user picks a region or a season: <<ComboboxSelected>> calls
\* auto_predict (lines 783-784)
ComboboxSelected(which, value) ==
    /\ phase = "running"
    /\ InputOpen
    /\ input_vars' = [input_vars EXCEPT ![which] = value]
    /\ EnterAutoPredict("combobox")
    /\ last' = LastNone
    /\ UNCHANGED <<phase, files, reported, regions, seasons, crops,
                   feature_columns, slider_vars, value_labels, timers,
                   display, shown,
                   pureVars>>

\* PREDICT NOW: manual_predict calls auto_predict (line 710)
manual_predict ==
    /\ phase = "running"
    /\ InputOpen
    /\ EnterAutoPredict("manual_predict")
    /\ last' = LastNone
    /\ UNCHANGED <<phase, files, reported, regions, seasons, crops,
                   feature_columns, slider_vars, value_labels, input_vars,
                   timers, display, shown,
                   pureVars>>

\* what reset_all writes before it calls auto_predict (lines 721-725)
ResetValues ==
    [sliders |-> [k \in KeySet |-> defaults[k]],
     inputs |-> [region |-> FirstOrEmpty(regions), season |-> FirstOrEmpty(seasons)]]

\* RESET: reset_all up to its call of auto_predict (lines 719-727)
reset_all ==
    /\ phase = "running"
    /\ InputOpen
    /\ slider_vars' = ResetValues.sliders
    /\ input_vars' = ResetValues.inputs
    /\ EnterAutoPredict("reset_all")
    /\ last' = [LastNone EXCEPT !.op = "reset_all", !.caller = "reset_all"]
    /\ UNCHANGED <<phase, files, reported, regions, seasons, crops,
                   feature_columns, value_labels, timers, display, shown,
                   pureVars>>

\* Bookkeeping on the handlers that have not returned, when a cycle ends
\* and leaves `panel` on display.  ran: one more cycle has run under a
\* reset_all (counted up to "two or more").  panel: how the result panel
\* compares with what it showed when the handler was entered: "same", or
\* "differs" once a first write has changed it, or "unknown" after later
\* writes (which may have restored it).
CountCycle(frames, panel) ==
    [i \in 1..Len(frames) |->
        [frames[i] EXCEPT
            !.ran = IF frames[i].caller = "reset_all" /\ @ < 2 THEN @ + 1 ELSE @,
            !.panel = IF panel = display THEN @
                      ELSE IF @ = "same" THEN "differs" ELSE "unknown"]]

\* auto_predict returns: a timer or a dropdown called it and the handler is
\* over, or manual_predict / reset_all go on to their message box (lines
\* 711-717, 728), which runs the event loop until the user closes it
Return(panel) ==
    LET counted == CountCycle(stack, panel)
        top == counted[Len(counted)]
        below == SubSeq(counted, 1, Len(counted) - 1)
    IN  IF top.caller \in {"manual_predict", "reset_all"}
        THEN Append(below, [top EXCEPT !.fn = "messagebox"])
        ELSE below

\* what the except clause (lines 702-706) leaves on the panel: it only sets
\* the status label
ErrorPanel == display

FeaturesOrNone ==
    IF /\ InClasses(regions, input_vars.region)
       /\ InClasses(seasons, input_vars.season)
       /\ FrameFits(Values(slider_vars, 0, 0), feature_columns)
    THEN CycleFeatures
    ELSE <<>>

\* root.update() returns and the rest of auto_predict runs into the except
\* clause (lines 615-640, 702-706)
AutoPredictError ==
    /\ phase = "running"
    /\ stack # <<>>
    /\ Top.fn = "auto_predict"
    /\ \E oc \in ClassifierOutcomes(Len(crops)) :
           /\ CycleFails(oc)
           /\ oc.predict_raises
    /\ display' = ErrorPanel
    /\ status' = StatusError
    /\ stack' = Return(display')
    /\ last' = [op |-> "auto_predict", caller |-> Top.caller, failed |-> TRUE,
                proba_raises |-> FALSE, prediction |-> 0,
                probabilities |-> <<>>,
                panel |-> IF display' = display THEN Top.panel ELSE "differs",
                features |-> FeaturesOrNone,
                ran |-> 0]
    /\ UNCHANGED <<phase, files, reported, regions, seasons, crops,
                   feature_columns, slider_vars, value_labels, input_vars,
                   timers, shown,
                   pureVars>>

\* root.update() returns and the rest of auto_predict runs to its end
\* (lines 615-700)
AutoPredictComplete ==
    /\ phase = "running"
    /\ stack # <<>>
    /\ Top.fn = "auto_predict"
    /\ \E oc \in ClassifierOutcomes(Len(crops)) :
           /\ ~CycleFails(oc)
           /\ \E order \in ArgSorts(oc.probabilities) :
                  display' = CycleDisplay(oc, order)
           /\ last' = [op |-> "auto_predict", caller |-> Top.caller,
                       failed |-> FALSE, proba_raises |-> oc.proba_raises,
                       prediction |-> oc.prediction,
                       probabilities |-> oc.probabilities, panel |-> Top.panel,
                       features |-> CycleFeatures, ran |-> 0]
    /\ shown' = [written |-> TRUE, sliders |-> slider_vars,
                 inputs |-> input_vars]
    /\ status' = StatusComplete
    /\ stack' = Return(display')
    /\ UNCHANGED <<phase, files, reported, regions, seasons, crops,
                   feature_columns, slider_vars, value_labels, input_vars,
                   timers, pureVars>>

\* the user closes the message box: manual_predict or reset_all returns
MessageBoxClosed ==
    /\ phase = "running"
    /\ stack # <<>>
    /\ Top.fn = "messagebox"
    /\ stack' = SubSeq(stack, 1, Len(stack) - 1)
    /\ last' = [LastNone EXCEPT !.op = "returned", !.caller = Top.caller,
                                !.ran = Top.ran]
    /\ UNCHANGED <<phase, files, reported, regions, seasons, crops,
                   feature_columns, slider_vars, value_labels, input_vars,
                   timers, status, display, shown,
                   pureVars>>

Next ==
    \/ StartupMissing
    \/ StartupLoads
    \/ Tick
    \/ \E m \in SliderMoves : update_value(m[1], m[2])
    \/ TimerFires
    \/ \E v \in {regions[i] : i \in 1..Len(regions)} : ComboboxSelected("region", v)
    \/ \E v \in {seasons[i] : i \in 1..Len(seasons)} : ComboboxSelected("season", v)
    \/ manual_predict
    \/ reset_all
    \/ AutoPredictError
    \/ AutoPredictComplete
    \/ MessageBoxClosed

Spec == Init /\ [][Next]_vars

(***************************************************************************)
(* Properties of the event handlers, under Spec.  `last` tells what the    *)
(* step just taken was: a prediction cycle that ended (op "auto_predict",  *)
(* with who called it, whether it ended in the except clause, what the     *)
(* classifier answered, the frame it built, and how the panel compares     *)
(* with the panel at the cycle's entry) or a handler with a message box    *)
(* that returned (op "returned", with the number of cycles run under it).  *)
(***************************************************************************)
PendingFrom(by) == {i \in 1..Len(timers) : timers[i].by = by}

\* C1: slider changes are debounced: each change cancels the timer an
\* earlier change left pending, so at most one timer set by update_value is
\* ever pending (and a burst of changes inside one 500 ms window runs one
\* prediction cycle).
C1_OnePendingTimer == Cardinality(PendingFrom("update_value")) <= 1

\* C2: a prediction cycle that ends in the except clause leaves the crop,
\* confidence, explanation and alternatives as they were when the cycle was
\* entered, ends with the status "Prediction error", and sets no further
\* cycle going.
C2_FailedCycleKeepsPanel ==
    (last.op = "auto_predict" /\ last.failed)
        => /\ last.panel # "differs"
           /\ status = StatusError

\* C3: a prediction cycle whose predict call succeeds and whose
\* predict_proba call raises still ends with the status "Prediction
\* complete", shows the confidence 0.0, and lists exactly one alternative:
\* the predicted label with 0.0.
C3_ProbabilityFallback ==
    (last.op = "auto_predict" /\ ~last.failed /\ last.proba_raises)
        => LET label == inverse_transform(crops, last.prediction)
           IN  /\ status = StatusComplete
               /\ status # StatusError
               /\ display.confidence = "0.0%"
               /\ display.alternatives =
                      "1. " \o get_crop_emoji(label) \o " " \o Title(label)
                          \o ": 0.0%\n"
               /\ display.crop = get_crop_emoji(label) \o " " \o Upper(label)

C3_Witness ==
    /\ last.op = "auto_predict" /\ ~last.failed /\ last.proba_raises
    /\ last.prediction = 1
    /\ display.alternatives = "1. U+1F33E Rice: 0.0%\n"

\* the value of the feature a column name stands for, from the inputs as the
\* controls hold them
FeatureNamed(column) ==
    CASE column = "Rainfall_mm" -> slider_vars.rainfall
      [] column = "Temperature_C" -> slider_vars.temperature
      [] column = "Humidity_pct" -> slider_vars.humidity
      [] column = "SoilMoisture_pct" -> slider_vars.soil_moisture
      [] column = "Sunlight_hours" -> slider_vars.sunlight
      [] column = "Soil_pH" -> slider_vars.soil_ph
      [] column = "SoilN_kg_ha" -> slider_vars.nitrogen
      [] column = "SoilP_kg_ha" -> slider_vars.phosphorus
      [] column = "SoilK_kg_ha" -> slider_vars.potassium
      [] column = "Region_Encoded" -> AsFloat(transform(regions, input_vars.region))
      [] column = "Season_Encoded" -> AsFloat(transform(seasons, input_vars.season))

\* C9: the frame handed to the classifier is as long as the loaded column
\* order and holds, under every column, the value of the feature that
\* column names (region and season as their encoded indices, which decode
\* back to the selected entries).
C9_RowFollowsColumnOrder ==
    (last.op = "auto_predict" /\ last.features # <<>>)
        => /\ Len(last.features) = Len(feature_columns)
           /\ \A i \in 1..Len(last.features) :
                  /\ last.features[i][1] = feature_columns[i]
                  /\ last.features[i][2] = FeatureNamed(feature_columns[i])
           /\ inverse_transform(regions, transform(regions, input_vars.region))
                  = input_vars.region
           /\ inverse_transform(seasons, transform(seasons, input_vars.season))
                  = input_vars.season

\* C10: reset_all sets the nine readings to the defaults and the region and
\* season to the first entry of their lists, and exactly one prediction
\* cycle, reading exactly those values, runs before reset_all returns.
C10_ResetRunsOneDefaultCycle ==
    /\ (last.op = "reset_all")
           => /\ slider_vars = defaults
              /\ input_vars = [region |-> FirstOrEmpty(regions),
                               season |-> FirstOrEmpty(seasons)]
    /\ (last.op = "auto_predict" /\ last.caller = "reset_all")
           => /\ slider_vars = defaults
              /\ input_vars = [region |-> FirstOrEmpty(regions),
                               season |-> FirstOrEmpty(seasons)]
    /\ (last.op = "returned" /\ last.caller = "reset_all") => last.ran = 1

RequiredSet == {RequiredFiles[i] : i \in 1..Len(RequiredFiles)}

\* whether the window exists: StartupLoads is what builds the widgets
WindowBuilt == status # "" \/ \E k \in KeySet : value_labels[k] # ""

\* C11: with the classifier or one of the three encoders missing the
\* program reports a file that is missing and exits, and it never builds
\* the window, sets a timer or runs a prediction cycle; with only
\* feature_columns.pkl missing it starts, and uses the built-in order:
\* rainfall, temperature, humidity, soil moisture, sunlight, pH, N, P, K,
\* region index, season index.
C11_Startup ==
    /\ (RequiredSet \ files # {})
           => /\ phase \in {"loading", "exited"}
              /\ ~WindowBuilt
              /\ timers = <<>> /\ stack = <<>>
              /\ display = InitialDisplay
              /\ last.op = "none"
    /\ phase = "exited"
           => /\ reported \in RequiredSet \ files
              /\ \A i, j \in 1..Len(RequiredFiles) :
                     (RequiredFiles[j] = reported /\ i < j)
                         => RequiredFiles[i] \in files
    /\ phase # "exited" => reported = ""
    /\ (phase = "running" /\ RequiredSet \subseteq files)
           => /\ WindowBuilt
              /\ (ColumnsFile \notin files
                      => feature_columns =
                             <<"Rainfall_mm", "Temperature_C", "Humidity_pct",
                               "SoilMoisture_pct", "Sunlight_hours", "Soil_pH",
                               "SoilN_kg_ha", "SoilP_kg_ha", "SoilK_kg_ha",
                               "Region_Encoded", "Season_Encoded">>)
    /\ phase = "running" => RequiredSet \subseteq files

C11_Witness ==
    /\ phase = "exited"
    /\ files = {"best_crop_model.pkl", "region_encoder.pkl", ColumnsFile}
    /\ reported = "season_encoder.pkl"

\* nothing is running and nothing is pending: every handler has returned
\* and every timer has fired
Quiescent == phase = "running" /\ timers = <<>> /\ stack = <<>>

\* the panels a cycle that gets through can leave from the inputs as the
\* controls hold them now
CurrentDisplays ==
    {DisplayOf(inverse_transform(crops, oc.prediction), Confidence(oc),
               TopThree(crops, oc, order), slider_vars, input_vars.season) :
        oc \in {o \in ClassifierOutcomes(Len(crops)) : ~o.predict_raises},
        order \in {o \in [1..Len(crops) -> 0..(Len(crops) - 1)] :
                      \A i, j \in 1..Len(crops) : i # j => o[i] # o[j]}}

\* C13: when every handler has returned and every timer has fired, and the
\* cycle that ended last got through, the cycle that last wrote the panel
\* read exactly the values the controls hold now, and crop, confidence,
\* explanation and alternatives are a result computed from those values.
C13_DisplayIsCurrent ==
    (Quiescent /\ status = StatusComplete)
        => /\ shown.written
           /\ shown.sliders = slider_vars
           /\ shown.inputs = input_vars
           /\ display \in CurrentDisplays

\* the rainfall slider has been moved to 260 and the panel explains 260
C13_Witness ==
    /\ Quiescent /\ status = StatusComplete
    /\ slider_vars.rainfall = 2600
    /\ shown.sliders.rainfall = 2600
    /\ value_labels.rainfall = "260.0 mm"
    /\ IsSubstr("high rainfall (260mm)", display.interpretation)

\* the GUI variables while only a pure function is exercised
GuiOff ==
    /\ phase = "off"
    /\ files = {}
    /\ reported = ""
    /\ regions = <<>> /\ seasons = <<>> /\ crops = <<>>
    /\ feature_columns = <<>>
    /\ slider_vars = defaults
    /\ value_labels = [k \in KeySet |-> ""]
    /\ input_vars = [region |-> "", season |-> ""]
    /\ timers = <<>>
    /\ stack = <<>>
    /\ status = ""
    /\ display = InitialDisplay
    /\ last = LastNone
    /\ shown = NoSnapshot

ExplainInit ==
    /\ GuiOff
    /\ \E a \in GiInputs :
           gi = [pc |-> "call", args |-> a, reasons |-> <<>>, message |-> ""]
    /\ rk = RkIdle
    /\ ce = CeIdle

\* one call of generate_interpretation, entry to return
Explain ==
    /\ gi.pc = "call"
    /\ gi' = [gi EXCEPT !.pc = "done",
                        !.reasons = CollectReasons(gi.args),
                        !.message = generate_interpretation(gi.args)]
    /\ UNCHANGED <<guiVars, rk, ce>>

ExplainNext == Explain

SpecExplain == ExplainInit /\ [][ExplainNext]_vars

(***************************************************************************)
(* Properties of generate_interpretation, under SpecExplain.               *)
(***************************************************************************)
\* The word that tells which feature a phrase speaks of, in the order the
\* specification lists the features.
FeatureWords ==
    <<"rainfall", "temperature", "humidity", "soil moisture", "sunlight",
      "pH", "nitrogen", "phosphorus", "potassium", " season">>

\* every phrase a call with arguments from GiInputs collects
GiPhrases ==
    UNION {{r[i] : i \in 1..Len(r)} : r \in {CollectReasons(a) : a \in GiInputs}}

\* the features whose word occurs in the phrase, tabulated over GiPhrases
PhraseFeatures ==
    [ph \in GiPhrases |->
        {f \in 1..Len(FeatureWords) : IsSubstr(FeatureWords[f], ph)}]

FeaturesOf(phrase) == PhraseFeatures[phrase]

RainfallPhrases(reasons) ==
    {i \in 1..Len(reasons) : 1 \in FeaturesOf(reasons[i])}

\* C6 as stated: a call of generate_interpretation with rainfall exactly 250
\* collects no rainfall phrase, whatever the other arguments are.
C6_NoPhraseAt250 ==
    (gi.pc = "done" /\ gi.args.rainfall = 2500)
        => RainfallPhrases(gi.reasons) = {}

\* C6 as the code has it: with rainfall exactly 250 the call collects exactly
\* one rainfall phrase, "moderate rainfall (250mm)", as the first reason; the
\* readings that collect no rainfall phrase are exactly those from 100 to 150.
C6_ModerateAt250 ==
    gi.pc = "done" =>
        /\ gi.args.rainfall = 2500 =>
               /\ RainfallPhrases(gi.reasons) = {1}
               /\ gi.reasons[1] = "moderate rainfall (250mm)"
        /\ RainfallPhrases(gi.reasons) = {}
               <=> (1000 <= gi.args.rainfall /\ gi.args.rainfall <= 1500)

C6_Witness ==
    /\ gi.pc = "done"
    /\ gi.args.rainfall = 2500
    /\ gi.reasons[1] = "moderate rainfall (250mm)"

C7_ExampleArgs ==
    [crop_name |-> "Rice", rainfall |-> 3000, temp |-> 350, humidity |-> 800,
     moisture |-> 650, sunlight |-> 100, ph |-> 65, n |-> 900, p |-> 600,
     k |-> 750, season |-> "Summer"]

\* an input none of whose readings falls in a band, in winter
C7_NoBandArgs(crop) ==
    [crop_name |-> crop, rainfall |-> 1000, temp |-> 310, humidity |-> 600,
     moisture |-> 450, sunlight |-> 70, ph |-> 72, n |-> 600, p |-> 400,
     k |-> 500, season |-> "Winter"]

\* C7: with r the reasons collected, three or more give "<label> is suitable
\* due to r1, r2, r3."; one or two give "<label> is recommended because of "
\* and the reasons joined with " and ", then "."; the Rice example and the
\* no-band winter input give the sentences the specification quotes.
C7_SentenceAssembly ==
    gi.pc = "done" =>
        LET r == gi.reasons
            label == gi.args.crop_name
        IN  /\ Len(r) >= 1
            /\ Len(r) >= 3 =>
                   gi.message = label \o " is suitable due to " \o r[1] \o ", "
                                    \o r[2] \o ", " \o r[3] \o "."
            /\ Len(r) = 2 =>
                   gi.message = label \o " is recommended because of " \o r[1]
                                    \o " and " \o r[2] \o "."
            /\ Len(r) = 1 =>
                   gi.message = label \o " is recommended because of " \o r[1] \o "."
            /\ gi.args = C7_ExampleArgs =>
                   gi.message = "Rice is suitable due to high rainfall (300mm), warm temperature (35.0U+00B0C), high humidity (80%)."
            /\ gi.args = C7_NoBandArgs(label) =>
                   gi.message = label \o " is recommended because of Winter season."

C7_Witness ==
    /\ gi.pc = "done"
    /\ gi.args = C7_ExampleArgs
    /\ Len(gi.reasons) = 10
    /\ gi.message = "Rice is suitable due to high rainfall (300mm), warm temperature (35.0U+00B0C), high humidity (80%)."

\* C8: every collected reason speaks of exactly one feature, the features of
\* successive reasons come strictly later in the fixed order (so no feature
\* has two phrases), and the last reason is always "<season> season".
C8_ReasonOrder ==
    gi.pc = "done" =>
        LET r == gi.reasons
            fs == [i \in 1..Len(r) |-> FeaturesOf(r[i])]
        IN  /\ \A i \in 1..Len(r) : Cardinality(fs[i]) = 1
            /\ \A i \in 1..(Len(r) - 1) :
                   \A f \in fs[i] : \A g \in fs[i + 1] : f < g
            /\ Len(r) >= 1
            /\ r[Len(r)] = gi.args.season \o " season"
            /\ fs[Len(r)] = {Len(FeatureWords)}

C8_Witness ==
    /\ gi.pc = "done"
    /\ Len(gi.reasons) = 10
    /\ gi.reasons[7] = "rich nitrogen"
    /\ gi.reasons[10] = "Winter season"

(***************************************************************************)
(* The ranking on its own: SpecRank draws the crop classes and a           *)
(* probability row over them and runs lines 648-651.                       *)
(***************************************************************************)
MaxClasses == 4

\* le_crop.classes_ for N crops: sorted, as LabelEncoder keeps them
RkLabels == <<"Banana", "Cotton", "Maize", "Rice", "Tea", "Wheat">>

RkProbValues == {0, 100, 200, 250, 300, 400, 500, 600, 750, 1000}

\* the rows predict_proba can return over N classes: they sum to 1
RkRows(N) ==
    LET RECURSIVE Sum(_, _)
        Sum(row, i) == IF i > Len(row) THEN 0 ELSE row[i] + Sum(row, i + 1)
    IN  {row \in [1..N -> RkProbValues] : Sum(row, 1) = 1000}

RankInit ==
    /\ GuiOff
    /\ gi = GiIdle
    /\ \E N \in 1..MaxClasses : \E row \in RkRows(N) :
           rk = [pc |-> "call", classes |-> SubSeq(RkLabels, 1, N),
                 probabilities |-> row,
                 top_3_indices |-> <<>>, top_3_crops |-> <<>>]
    /\ ce = CeIdle

\* lines 648-651, for each order np.argsort may return
Rank ==
    /\ rk.pc = "call"
    /\ \E order \in ArgSorts(rk.probabilities) :
           LET indices == top_3_indices(order)
           IN  rk' = [rk EXCEPT
                        !.pc = "done",
                        !.top_3_indices = indices,
                        !.top_3_crops =
                            top_3_crops(rk.classes, rk.probabilities, indices)]
    /\ UNCHANGED <<guiVars, gi, ce>>

RankNext == Rank

SpecRank == RankInit /\ [][RankNext]_vars

Min(a, b) == IF a < b THEN a ELSE b

\* C4: the alternatives have min(3, N) entries; entry i is the label and the
\* probability x 100 of one class, a different class for each entry; the
\* probabilities do not increase along the list; no class left out has a
\* higher probability than a class in the list.
C4_TopK ==
    rk.pc = "done" =>
        LET p == rk.probabilities
            N == Len(p)
            idx == rk.top_3_indices
            alt == rk.top_3_crops
            kept == {idx[i] : i \in 1..Len(idx)}
        IN  /\ Len(alt) = Min(3, N)
            /\ Len(idx) = Len(alt)
            /\ \A i \in 1..Len(alt) :
                   /\ idx[i] \in 0..(N - 1)
                   /\ alt[i] = <<rk.classes[idx[i] + 1], p[idx[i] + 1] * 100>>
            /\ \A i, j \in 1..Len(idx) : i # j => idx[i] # idx[j]
            /\ \A i \in 1..(Len(alt) - 1) : alt[i][2] >= alt[i + 1][2]
            /\ \A out \in (0..(N - 1)) \ kept : \A in \in kept :
                   p[out + 1] <= p[in + 1]

C4_Witness ==
    /\ rk.pc = "done"
    /\ rk.probabilities = <<100, 500, 0, 400>>
    /\ rk.top_3_crops = <<<<"Cotton", 50000>>, <<"Rice", 40000>>, <<"Banana", 10000>>>>

\* C5 as stated: labels of equal probability appear in class-index order,
\* the lower index first, and where a tie straddles the cut-off the
\* lower-indexed of the tied labels are the ones kept.
C5_TiesInIndexOrder ==
    rk.pc = "done" =>
        LET p == rk.probabilities
            N == Len(p)
            idx == rk.top_3_indices
            kept == {idx[i] : i \in 1..Len(idx)}
        IN  /\ \A i, j \in 1..Len(idx) :
                   (i < j /\ p[idx[i] + 1] = p[idx[j] + 1]) => idx[i] < idx[j]
            /\ \A out \in (0..(N - 1)) \ kept : \A in \in kept :
                   p[out + 1] = p[in + 1] => in < out

(***************************************************************************)
(* The icon lookup on its own: SpecIcon draws a name and runs one call of  *)
(* get_crop_emoji.                                                         *)
(***************************************************************************)
\* the names tried: every table key, and names that are no key: other
\* spellings of a key, names that hold a key, parts of a key, the empty
\* name, and names that match nothing
IconNames ==
    {CROP_EMOJIS[i][1] : i \in 1..Len(CROP_EMOJIS)}
    \cup {"rice", "RICE", "Basmati Rice", "Sweet Corn", "Popcorn",
          "Peppercorn", "Pineapple", "Green Beans", "Sweet Potato",
          "Chilli Pepper", "Cottonseed", "soy", "an", "nut", "Pea", "e", "",
          "Quinoa", "Jute", "Okra", "Yam", "Lychee"}

IconInit ==
    /\ GuiOff
    /\ gi = GiIdle
    /\ rk = RkIdle
    /\ \E name \in IconNames :
           ce = [pc |-> "call", crop_name |-> name, emoji |-> ""]

\* one call of get_crop_emoji, entry to return
Icon ==
    /\ ce.pc = "call"
    /\ ce' = [ce EXCEPT !.pc = "done", !.emoji = get_crop_emoji(ce.crop_name)]
    /\ UNCHANGED <<guiVars, gi, rk>>

IconNext == Icon

SpecIcon == IconInit /\ [][IconNext]_vars

(***************************************************************************)
(* Properties of get_crop_emoji, under SpecIcon.                           *)
(***************************************************************************)
DefaultIcon == "U+1F331"

\* the table entries whose key is the name
KeyIs(name) == {i \in 1..Len(CROP_EMOJIS) : CROP_EMOJIS[i][1] = name}

\* the table entries whose key, case ignored, lies in the name or holds it
KeyNear(name) ==
    {i \in 1..Len(CROP_EMOJIS) :
        \/ IsSubstr(Lower(CROP_EMOJIS[i][1]), Lower(name))
        \/ IsSubstr(Lower(name), Lower(CROP_EMOJIS[i][1]))}

\* C12 as stated: the icon of the entry whose key is the name; otherwise
\* the icon of the first entry whose key lies in the name or holds it, case
\* ignored; and the default icon is returned if and only if no entry
\* matches in either way.
C12_DefaultIffNoMatch ==
    ce.pc = "done" =>
        LET name == ce.crop_name
        IN  /\ \A i \in KeyIs(name) : ce.emoji = CROP_EMOJIS[i][2]
            /\ (KeyIs(name) = {} /\ KeyNear(name) # {})
                   => \E i \in KeyNear(name) :
                          /\ \A j \in KeyNear(name) : i <= j
                          /\ ce.emoji = CROP_EMOJIS[i][2]
            /\ ce.emoji = DefaultIcon
                   <=> (KeyIs(name) = {} /\ KeyNear(name) = {})

\* C12 as the code has it: the same two lookups, and the default icon
\* whenever no entry matches in either way; the default icon is also the
\* table's icon for Soybean and Cotton, so it is returned for names that
\* match one of those two entries first, and for no other matching name.
C12_IconLookup ==
    ce.pc = "done" =>
        LET name == ce.crop_name
        IN  /\ \A i \in KeyIs(name) : ce.emoji = CROP_EMOJIS[i][2]
            /\ (KeyIs(name) = {} /\ KeyNear(name) # {})
                   => \E i \in KeyNear(name) :
                          /\ \A j \in KeyNear(name) : i <= j
                          /\ ce.emoji = CROP_EMOJIS[i][2]
            /\ (KeyIs(name) = {} /\ KeyNear(name) = {})
                   => ce.emoji = DefaultIcon
            /\ (ce.emoji = DefaultIcon /\ KeyNear(name) # {})
                   => \E i \in KeyNear(name) :
                          /\ CROP_EMOJIS[i][1] \in {"Soybean", "Cotton"}
                          /\ (KeyIs(name) = {i}
                                 \/ (KeyIs(name) = {}
                                        /\ \A j \in KeyNear(name) : i <= j))

\* "an" is no key; the first key that holds it is Soybean (before Banana)
C12_Witness ==
    /\ ce.pc = "done"
    /\ ce.crop_name = "an"
    /\ KeyIs(ce.crop_name) = {}
    /\ ce.emoji = DefaultIcon

(***************************************************************************)
(* One prediction cycle on its own: SpecCycle starts where the timer of    *)
(* line 780 has fired and auto_predict sits in root.update() (line 613),   *)
(* with the rainfall slider either untouched or moved meanwhile, and runs  *)
(* the rest of auto_predict once, over a three-crop classifier.            *)
(***************************************************************************)
CycleCrops == <<"Banana", "Maize", "Rice">>
CycleRainfall == {500, 2000, 2600}

CycleInit ==
    /\ phase = "running"
    /\ files = AllFiles
    /\ reported = ""
    /\ regions = <<"East">> /\ seasons = <<"Summer">> /\ crops = CycleCrops
    /\ feature_columns \in ColumnChoices
    /\ \E r \in CycleRainfall :
           /\ slider_vars = [defaults EXCEPT !.rainfall = r]
           /\ value_labels =
                  [k \in KeySet |->
                      ValueLabelText(k, IF k = "rainfall" THEN r ELSE defaults[k])]
           /\ timers = IF r = defaults.rainfall THEN <<>>
                       ELSE <<[left |-> 500, by |-> "update_value"]>>
    /\ input_vars = [region |-> "East", season |-> "Summer"]
    /\ stack = <<[fn |-> "auto_predict", caller |-> "timer",
                  panel |-> "same", ran |-> 0]>>
    /\ status = StatusPredicting
    /\ display = InitialDisplay
    /\ last = LastNone
    /\ shown = NoSnapshot
    /\ gi = GiIdle /\ rk = RkIdle /\ ce = CeIdle

CycleNext ==
    \/ AutoPredictComplete
    \/ AutoPredictError

SpecCycle == CycleInit /\ [][CycleNext]_vars

(***************************************************************************)
(* Properties of one prediction cycle, under SpecCycle.                    *)
(***************************************************************************)
\* C14: after a cycle that got through with probabilities, where predict
\* returned a label of the highest probability, the first line of the
\* alternatives names the recommended crop and shows the percentage that
\* the confidence label shows, also when several labels share the highest
\* probability.
C14_RecommendedHeadsAlternatives ==
    (/\ last.op = "auto_predict" /\ ~last.failed /\ ~last.proba_raises
     /\ \A c \in 0..(Len(last.probabilities) - 1) :
            At(last.probabilities, c) <= At(last.probabilities, last.prediction))
        => LET label == inverse_transform(crops, last.prediction)
               head == "1. " \o get_crop_emoji(label) \o " " \o Title(label)
                           \o ": " \o display.confidence \o "\n"
           IN  /\ display.crop = get_crop_emoji(label) \o " " \o Upper(label)
               /\ Len(display.alternatives) >= Len(head)
               /\ SubSeq(display.alternatives, 1, Len(head)) = head

=============================================================================
